---- MODULE Spec2Model ----
(***************************************************************************)
(* Model of avl_tree.c: the AVL node heap, insert_avl with its rotations,  *)
(* destroy_avl, print_avl_sideways, and the main() driver that feeds the   *)
(* command-line array to insert_avl, prints the tree and destroys it.      *)
(*                                                                         *)
(* Nodes live in a heap: a function from addresses (positive integers) to  *)
(* AVLNode records; a pointer is an address, NULL is 0.  Every C function  *)
(* that mutates nodes takes the heap and returns the new heap together     *)
(* with its C return value.  Dereferencing NULL is recorded as a fault:    *)
(* the process is killed and main() never resumes.                         *)
(***************************************************************************)
EXTENDS Integers, Sequences, FiniteSets

\* ---------------------------------------------------------------- bounds
MaxKey == 3
MaxLen == 5
MaxRotNodes == 4
MaxBstNodes == 4
MaxDistinct == 6
MaxWalkLen == 4

NULL == 0

Keys == 1..MaxKey

\* The array of the documented command line: avl_tree 10 3 10 2 1 ... 78
DocumentedArgs == <<3, 10, 2, 1, -100, 4, 95, 3, 489, 78>>

\* The eleven keys of the scenario (the array size read as a key as well)
ScenarioKeys == <<10, 3, 10, 2, 1, -100, 4, 95, 3, 489, 78>>

BoundedArrays == UNION {[1..n -> Keys] : n \in 0..MaxLen}

InputArrays == BoundedArrays \cup {DocumentedArgs, ScenarioKeys}

\* ------------------------------------------------------------ the heap
EmptyHeap == [a \in {} |-> 0]

SetMax(S) == CHOOSE m \in S : \A x \in S : x <= m

\* malloc: the address of a block not in use (the lowest one)
malloc(h) ==
    CHOOSE p \in 1..(Cardinality(DOMAIN h) + 1) :
        p \notin DOMAIN h /\ \A q \in 1..(p - 1) : q \in DOMAIN h

\* free: the block is no longer in use
free(h, p) == [a \in DOMAIN h \ {p} |-> h[a]]

\* Slip: the smaller value is returned
MAXIMUM_smaller(a, b) == IF a < b THEN a ELSE b

MAXIMUM(a, b) == IF a > b THEN a ELSE b

AVLNode(data, height, left, right) ==
    [data |-> data, height |-> height, left |-> left, right |-> right]

\* ok is the outcome of malloc: FALSE is an allocation failure
new_avl_node(h, data, height, left, right, ok) ==
    IF ~ok
    THEN [heap |-> h, ret |-> NULL]
    ELSE LET node == malloc(h)
         IN [heap |-> [a \in DOMAIN h \cup {node} |->
                          IF a = node THEN AVLNode(data, height, left, right)
                                      ELSE h[a]],
             ret |-> node]

get_avl_height(h, node) == IF node # NULL THEN h[node].height ELSE 0

get_avl_balance(h, node) ==
    IF node # NULL
    THEN get_avl_height(h, h[node].left) - get_avl_height(h, h[node].right)
    ELSE 0

\* A rotation result: the heap, the returned pointer, and whether the
\* rotation dereferenced NULL (x->right with x = y->left = NULL)
Faulted(h) == [heap |-> h, ret |-> NULL, fault |-> TRUE]

\* Slip: y->left is cleared instead of taking over t2
right_rotate_avl_drops_t2(h, y) ==
    LET x == h[y].left IN
    IF x = NULL THEN Faulted(h)
    ELSE LET h1 == [h EXCEPT ![x].right = y]
             h2 == [h1 EXCEPT ![y].left = NULL]
             h3 == [h2 EXCEPT ![y].height =
                      MAXIMUM(get_avl_height(h2, h2[y].left),
                              get_avl_height(h2, h2[y].right)) + 1]
             h4 == [h3 EXCEPT ![x].height =
                      MAXIMUM(get_avl_height(h3, h3[x].left),
                              get_avl_height(h3, h3[x].right)) + 1]
         IN [heap |-> h4, ret |-> x, fault |-> FALSE]

right_rotate_avl(h, y) ==
    LET x == h[y].left IN
    IF x = NULL THEN Faulted(h)
    ELSE LET t2 == h[x].right
             h1 == [h EXCEPT ![x].right = y]
             h2 == [h1 EXCEPT ![y].left = t2]
             h3 == [h2 EXCEPT ![y].height =
                      MAXIMUM(get_avl_height(h2, h2[y].left),
                              get_avl_height(h2, h2[y].right)) + 1]
             h4 == [h3 EXCEPT ![x].height =
                      MAXIMUM(get_avl_height(h3, h3[x].left),
                              get_avl_height(h3, h3[x].right)) + 1]
         IN [heap |-> h4, ret |-> x, fault |-> FALSE]

\* Slip: the height of the new root y is recomputed before that of x
left_rotate_avl_parent_first(h, x) ==
    LET y == h[x].right IN
    IF y = NULL THEN Faulted(h)
    ELSE LET t2 == h[y].left
             h1 == [h EXCEPT ![y].left = x]
             h2 == [h1 EXCEPT ![x].right = t2]
             h3 == [h2 EXCEPT ![y].height =
                      MAXIMUM(get_avl_height(h2, h2[y].left),
                              get_avl_height(h2, h2[y].right)) + 1]
             h4 == [h3 EXCEPT ![x].height =
                      MAXIMUM(get_avl_height(h3, h3[x].left),
                              get_avl_height(h3, h3[x].right)) + 1]
         IN [heap |-> h4, ret |-> y, fault |-> FALSE]

left_rotate_avl(h, x) ==
    LET y == h[x].right IN
    IF y = NULL THEN Faulted(h)
    ELSE LET t2 == h[y].left
             h1 == [h EXCEPT ![y].left = x]
             h2 == [h1 EXCEPT ![x].right = t2]
             h3 == [h2 EXCEPT ![x].height =
                      MAXIMUM(get_avl_height(h2, h2[x].left),
                              get_avl_height(h2, h2[x].right)) + 1]
             h4 == [h3 EXCEPT ![y].height =
                      MAXIMUM(get_avl_height(h3, h3[y].left),
                              get_avl_height(h3, h3[y].right)) + 1]
         IN [heap |-> h4, ret |-> y, fault |-> FALSE]

\* One recursion level of insert_avl as it is logged in the frames of a
\* call: the node it ran on, the key being inserted, the balance it computed
\* (0 when it did not get that far), the key of the child on the heavy side
\* that the rotation tests compare with (0 when the node is balanced), the
\* rebalancing case it took and the pointer it returned.
Frame(node, data, balance, childKey, rot, ret) ==
    [node |-> node, data |-> data, balance |-> balance,
     childKey |-> childKey, rot |-> rot, ret |-> ret]

\* Slip: the comparison is inverted
insert_avl_goes_left_inverted(h, node, data) == data > h[node].data

\* if (data < node->data): the recursion takes the left child
insert_avl_goes_left(h, node, data) == data < h[node].data

\* insert_avl after the child link is reassigned: the height update, the
\* balance factor and the four rotation cases.
insert_avl_rebalance(h, node, data) ==
    LET h1 == [h EXCEPT ![node].height =
                  MAXIMUM(get_avl_height(h, h[node].left),
                          get_avl_height(h, h[node].right)) + 1]
        balance == get_avl_balance(h1, node)
        l == h1[node].left
        r == h1[node].right
        childKey == IF balance > 1 /\ l # NULL THEN h1[l].data
                    ELSE IF balance < -1 /\ r # NULL THEN h1[r].data
                    ELSE 0
        Res(a, rot) == [heap |-> a.heap, ret |-> a.ret, fault |-> a.fault,
                        balance |-> balance, childKey |-> childKey,
                        rot |-> rot]
    IN  IF (balance > 1 /\ l = NULL) \/ (balance < -1 /\ r = NULL)
        THEN Res(Faulted(h1), "none")
        ELSE IF balance > 1 /\ data < h1[l].data
        THEN Res(right_rotate_avl(h1, node), "LL")
        ELSE IF balance < -1 /\ data > h1[r].data
        THEN Res(left_rotate_avl(h1, node), "RR")
        ELSE IF balance > 1 /\ data > h1[l].data
        THEN LET a == left_rotate_avl(h1, l)
             IN IF a.fault THEN Res(a, "LR")
                ELSE Res(right_rotate_avl(
                           [a.heap EXCEPT ![node].left = a.ret], node), "LR")
        ELSE IF balance < -1 /\ data < h1[r].data
        THEN LET a == right_rotate_avl(h1, r)
             IN IF a.fault THEN Res(a, "RL")
                ELSE Res(left_rotate_avl(
                           [a.heap EXCEPT ![node].right = a.ret], node), "RL")
        ELSE Res([heap |-> h1, ret |-> node, fault |-> FALSE], "none")

RECURSIVE insert_avl(_, _, _, _)
\* Slip: the child link is assigned without the test for NULL, and the
\* level goes on to rebalance and return its node
insert_avl_unchecked(h, node, data, ok) ==
    IF node = NULL
    THEN LET a == new_avl_node(h, data, 1, NULL, NULL, ok)
         IN [heap |-> a.heap, ret |-> a.ret, fault |-> FALSE,
             frames |-> <<Frame(NULL, data, 0, 0, "none", a.ret)>>]
    ELSE LET goLeft == insert_avl_goes_left(h, node, data)
             sub == insert_avl(h, IF goLeft THEN h[node].left
                                            ELSE h[node].right, data, ok)
         IN IF sub.fault
            THEN [sub EXCEPT !.frames =
                        Append(@, Frame(node, data, 0, 0, "none", NULL))]
            ELSE LET h1 == IF goLeft
                           THEN [sub.heap EXCEPT ![node].left = sub.ret]
                           ELSE [sub.heap EXCEPT ![node].right = sub.ret]
                     b == insert_avl_rebalance(h1, node, data)
                 IN [heap |-> b.heap, ret |-> b.ret, fault |-> b.fault,
                     frames |-> Append(sub.frames,
                                   Frame(node, data, b.balance, b.childKey,
                                         b.rot, b.ret))]

insert_avl(h, node, data, ok) ==
    IF node = NULL
    THEN LET a == new_avl_node(h, data, 1, NULL, NULL, ok)
         IN [heap |-> a.heap, ret |-> a.ret, fault |-> FALSE,
             frames |-> <<Frame(NULL, data, 0, 0, "none", a.ret)>>]
    ELSE LET goLeft == insert_avl_goes_left(h, node, data)
             sub == insert_avl(h, IF goLeft THEN h[node].left
                                            ELSE h[node].right, data, ok)
         IN IF sub.fault
            THEN [sub EXCEPT !.frames =
                        Append(@, Frame(node, data, 0, 0, "none", NULL))]
            ELSE IF sub.ret = NULL
            THEN [heap |-> sub.heap, ret |-> NULL, fault |-> FALSE,
                  frames |-> Append(sub.frames,
                                Frame(node, data, 0, 0, "none", NULL))]
            ELSE LET h1 == IF goLeft
                           THEN [sub.heap EXCEPT ![node].left = sub.ret]
                           ELSE [sub.heap EXCEPT ![node].right = sub.ret]
                     b == insert_avl_rebalance(h1, node, data)
                 IN [heap |-> b.heap, ret |-> b.ret, fault |-> b.fault,
                     frames |-> Append(sub.frames,
                                   Frame(node, data, b.balance, b.childKey,
                                         b.rot, b.ret))]

\* destroy_avl returns the heap, the sequence of free() calls it made and
\* the number of nested calls it needed (this call included)
RECURSIVE destroy_avl(_, _)
\* Slip: the node is freed before its children are destroyed
destroy_avl_parent_first(h, node) ==
    IF node = NULL THEN [heap |-> h, freed |-> <<>>, depth |-> 1]
    ELSE LET a == destroy_avl(free(h, node), h[node].left)
             b == destroy_avl(a.heap, h[node].right)
         IN [heap |-> b.heap,
             freed |-> <<node>> \o a.freed \o b.freed,
             depth |-> 1 + MAXIMUM(a.depth, b.depth)]

destroy_avl(h, node) ==
    IF node = NULL THEN [heap |-> h, freed |-> <<>>, depth |-> 1]
    ELSE LET a == destroy_avl(h, h[node].left)
             b == destroy_avl(a.heap, h[node].right)
         IN [heap |-> free(b.heap, node),
             freed |-> a.freed \o b.freed \o <<node>>,
             depth |-> 1 + MAXIMUM(a.depth, b.depth)]

\* One printed line: depth times four spaces, then the key
Line(depth, data) == [indent |-> 4 * depth, data |-> data]

RECURSIVE print_avl_sideways(_, _, _)
\* Slip: the left subtree is printed first
print_avl_sideways_left_first(h, node, depth) ==
    IF node = NULL THEN <<>>
    ELSE print_avl_sideways(h, h[node].left, depth + 1)
         \o <<Line(depth, h[node].data)>>
         \o print_avl_sideways(h, h[node].right, depth + 1)

\* Slip: the left subtree is printed at the depth of its parent
print_avl_sideways_flat_left(h, node, depth) ==
    IF node = NULL THEN <<>>
    ELSE print_avl_sideways(h, h[node].right, depth + 1)
         \o <<Line(depth, h[node].data)>>
         \o print_avl_sideways(h, h[node].left, depth)

print_avl_sideways(h, node, depth) ==
    IF node = NULL THEN <<>>
    ELSE print_avl_sideways(h, h[node].right, depth + 1)
         \o <<Line(depth, h[node].data)>>
         \o print_avl_sideways(h, h[node].left, depth + 1)

\* ------------------------------------------------------------- main()
\* argv, i, root, temp, rc: the locals of main(); pc: its position; heap:
\* the allocated nodes; freed: the free() calls made; out: standard output;
\* frames: the recursion levels of the last insert_avl call.
\* a, buffer, tree belong to the other programs of the repository (the int
\* array of their main(), the merge buffer, the pointer to the BST handle).
\* In those programs temp holds the code returned by the last call and frames
\* the pointers malloc returned during it (NULL for a failed allocation).
\* visited: the tree nodes in the order the in-order walk of the stack-based
\* tree_sort wrote them to the array.
VARIABLES argv, i, root, temp, rc, pc, heap, freed, out, frames,
          a, buffer, tree, visited

vars == <<argv, i, root, temp, rc, pc, heap, freed, out, frames,
          a, buffer, tree, visited>>

\* What avl_tree.c never touches
others == <<a, buffer, tree, visited>>

n == Len(argv)

Init ==
    /\ argv \in InputArrays
    /\ i = 0
    /\ root = NULL
    /\ temp = NULL
    /\ rc = 0
    /\ pc = "start"
    /\ heap = EmptyHeap
    /\ freed = <<>>
    /\ out = <<>>
    /\ frames = <<>>
    /\ a = <<>>
    /\ buffer = <<>>
    /\ visited = <<>>
    /\ tree = NULL

\* n = atoi(argv[1]); if (n <= 0) return 0;
Start ==
    /\ pc = "start"
    /\ pc' = IF n <= 0 THEN "done" ELSE "loop"
    /\ UNCHANGED <<argv, i, root, temp, rc, heap, freed, out, frames, others>>

\* One iteration of the for loop: temp = insert_avl(root, argv[i + 2])
Insert ==
    /\ pc = "loop"
    /\ i < n
    /\ \E ok \in BOOLEAN :
         LET r == insert_avl(heap, root, argv[i + 1], ok)
         IN /\ heap' = r.heap
            /\ frames' = r.frames
            /\ IF r.fault
               THEN /\ pc' = "crashed"
                    /\ UNCHANGED <<i, root, temp, rc>>
               ELSE /\ temp' = r.ret
                    /\ IF r.ret = NULL
                       THEN /\ rc' = 1
                            /\ pc' = "cleanup"
                            /\ UNCHANGED <<i, root>>
                       ELSE /\ root' = r.ret
                            /\ i' = i + 1
                            /\ UNCHANGED <<rc, pc>>
    /\ UNCHANGED <<argv, freed, out, others>>

\* print_avl_sideways(root, 0) after the loop
PrintTree ==
    /\ pc = "loop"
    /\ i = n
    /\ out' = print_avl_sideways(heap, root, 0)
    /\ pc' = "cleanup"
    /\ UNCHANGED <<argv, i, root, temp, rc, heap, freed, frames, others>>

\* cleanup_main: destroy_avl(root); root = NULL;
Destroy ==
    /\ pc = "cleanup"
    /\ LET d == destroy_avl(heap, root)
       IN /\ heap' = d.heap
          /\ freed' = d.freed
    /\ root' = NULL
    /\ pc' = "done"
    /\ UNCHANGED <<argv, i, temp, rc, out, frames, others>>

Next == Start \/ Insert \/ PrintTree \/ Destroy

Spec == Init /\ [][Next]_vars

\* ------------------------------------------------ distinct keys only
\* The same program on command lines whose keys are pairwise distinct
DistinctArrays ==
    {s \in UNION {[1..k -> 1..MaxDistinct] : k \in 0..MaxDistinct} :
        \A x, y \in DOMAIN s : x # y => s[x] # s[y]}

InitDistinct ==
    /\ argv \in DistinctArrays
    /\ i = 0
    /\ root = NULL
    /\ temp = NULL
    /\ rc = 0
    /\ pc = "start"
    /\ heap = EmptyHeap
    /\ freed = <<>>
    /\ out = <<>>
    /\ frames = <<>>
    /\ a = <<>>
    /\ buffer = <<>>
    /\ visited = <<>>
    /\ tree = NULL

SpecDistinct == InitDistinct /\ [][Next]_vars

\* ------------------------------------------- the rotations on their own
\* The trees handed to a rotation: every tree of at most MaxRotNodes nodes
\* with keys of Keys in non-decreasing left-self-right order, written as
\* <<>> (absent) or <<key, left, right>>
RECURSIVE TreesOfSize(_, _, _)
TreesOfSize(k, lo, hi) ==
    IF k = 0 THEN {<<>>}
    ELSE UNION {{<<x, l, r>> : l \in TreesOfSize(j, lo, x),
                               r \in TreesOfSize(k - 1 - j, x, hi)} :
                j \in 0..(k - 1), x \in lo..hi}

RotationInputs == UNION {TreesOfSize(k, 1, MaxKey) : k \in 1..MaxRotNodes}

\* The tree t allocated node by node, children first, with new_avl_node and
\* the height 1 + max of the children's heights
RECURSIVE BuildTree(_, _)
BuildTree(h, t) ==
    IF t = <<>> THEN [heap |-> h, ret |-> NULL]
    ELSE LET l == BuildTree(h, t[2])
             r == BuildTree(l.heap, t[3])
         IN new_avl_node(r.heap, t[1],
                MAXIMUM(get_avl_height(r.heap, l.ret),
                        get_avl_height(r.heap, r.ret)) + 1,
                l.ret, r.ret, TRUE)

\* A test of the rotations: root is the node the rotation is called on (any
\* node of the tree), temp the pointer it returns
InitRotate ==
    /\ heap \in {BuildTree(EmptyHeap, t).heap : t \in RotationInputs}
    /\ root \in DOMAIN heap
    /\ temp = NULL
    /\ pc = "rotate"
    /\ argv = <<>>
    /\ i = 0
    /\ rc = 0
    /\ freed = <<>>
    /\ out = <<>>
    /\ frames = <<>>
    /\ a = <<>>
    /\ buffer = <<>>
    /\ visited = <<>>
    /\ tree = NULL

\* right_rotate_avl(root), its required child present
RotateRight ==
    /\ pc = "rotate"
    /\ heap[root].left # NULL
    /\ LET r == right_rotate_avl(heap, root)
       IN /\ heap' = r.heap
          /\ temp' = r.ret
    /\ pc' = "rotated_right"
    /\ UNCHANGED <<argv, i, root, rc, freed, out, frames, others>>

\* left_rotate_avl(root), its required child present
RotateLeft ==
    /\ pc = "rotate"
    /\ heap[root].right # NULL
    /\ LET r == left_rotate_avl(heap, root)
       IN /\ heap' = r.heap
          /\ temp' = r.ret
    /\ pc' = "rotated_left"
    /\ UNCHANGED <<argv, i, root, rc, freed, out, frames, others>>

NextRotate == RotateRight \/ RotateLeft

SpecRotate == InitRotate /\ [][NextRotate]_vars

\* ------------------------------------------------------- merge_sort.c
\* A C int array of n elements is a function on 0..n-1.

\* The array of the documented command line: merge_sort 4 3 10 2 1
MergeDocumentedArgs == <<3, 10, 2, 1>>

MergeInputs == BoundedArrays \cup {MergeDocumentedArgs}

\* What a freshly allocated buffer may hold in every element
Garbage == {-1, MaxKey + 1}

\* The three while loops of merge_sort_merge, which fill buffer[left..right)
RECURSIVE merge_sort_merge_fill(_, _, _, _, _, _, _)
merge_sort_merge_fill(arr, buf, mi, mj, mk, middle, right) ==
    IF mi < middle /\ mj < right
    THEN IF arr[mi] < arr[mj]
         THEN merge_sort_merge_fill(arr, [buf EXCEPT ![mk] = arr[mi]],
                                    mi + 1, mj, mk + 1, middle, right)
         ELSE merge_sort_merge_fill(arr, [buf EXCEPT ![mk] = arr[mj]],
                                    mi, mj + 1, mk + 1, middle, right)
    ELSE IF mi < middle
    THEN merge_sort_merge_fill(arr, [buf EXCEPT ![mk] = arr[mi]],
                               mi + 1, mj, mk + 1, middle, right)
    ELSE IF mj < right
    THEN merge_sort_merge_fill(arr, [buf EXCEPT ![mk] = arr[mj]],
                               mi, mj + 1, mk + 1, middle, right)
    ELSE buf

\* merge_sort_merge: fill the buffer, then copy buffer[left..right) back
merge_sort_merge(arr, left, middle, right, buf) ==
    LET filled == merge_sort_merge_fill(arr, buf, left, middle, left,
                                        middle, right)
    IN [arr |-> [x \in DOMAIN arr |->
                    IF left <= x /\ x < right THEN filled[x] ELSE arr[x]],
        buffer |-> filled]

RECURSIVE merge_sort_recursive(_, _, _, _)
\* Slip: the right half is not sorted before the merge
merge_sort_recursive_left_only(arr, left, right, buf) ==
    IF right - left <= 1 THEN [arr |-> arr, buffer |-> buf]
    ELSE LET middle == (left + right) \div 2
             l == merge_sort_recursive(arr, left, middle, buf)
         IN merge_sort_merge(l.arr, left, middle, right, l.buffer)

merge_sort_recursive(arr, left, right, buf) ==
    IF right - left <= 1 THEN [arr |-> arr, buffer |-> buf]
    ELSE LET middle == (left + right) \div 2
             l == merge_sort_recursive(arr, left, middle, buf)
             r == merge_sort_recursive(l.arr, middle, right, l.buffer)
         IN merge_sort_merge(r.arr, left, middle, right, r.buffer)

\* merge_sort with its buffer allocated and holding g everywhere; released
\* tells whether the buffer was freed before the return
merge_sort(arr_count, arr, g) ==
    LET buf == [x \in 0..(arr_count - 1) |-> g]
    IN IF arr_count < 2
       THEN [arr |-> arr, buffer |-> buf, released |-> FALSE]
       ELSE LET r == merge_sort_recursive(arr, 0, arr_count, buf)
            IN [arr |-> r.arr, buffer |-> r.buffer, released |-> TRUE]

\* What merge_sort.c never touches
mergeOthers == <<i, root, temp, heap, frames, tree, visited>>

MergeInit ==
    /\ argv \in MergeInputs
    /\ pc = "start"
    /\ rc = 0
    /\ a = <<>>
    /\ buffer = <<>>
    /\ visited = <<>>
    /\ freed = <<>>
    /\ out = <<>>
    /\ i = 0
    /\ root = NULL
    /\ temp = NULL
    /\ heap = EmptyHeap
    /\ frames = <<>>
    /\ tree = NULL

\* main() up to the call: n <= 0 returns 0; a = malloc(...) may fail; the
\* loop copies the arguments into a
MergeStart ==
    /\ pc = "start"
    /\ IF n <= 0
       THEN /\ pc' = "done"
            /\ UNCHANGED <<rc, a>>
       ELSE \E ok \in BOOLEAN :
              IF ok
              THEN /\ a' = [x \in 0..(n - 1) |-> argv[x + 1]]
                   /\ pc' = "sort"
                   /\ UNCHANGED rc
              ELSE /\ rc' = 1
                   /\ pc' = "done"
                   /\ UNCHANGED a
    /\ UNCHANGED <<argv, buffer, freed, out, mergeOthers>>

\* merge_sort(n, a): a failed buffer allocation exits the process
MergeSort ==
    /\ pc = "sort"
    /\ \E ok \in BOOLEAN :
         IF ok
         THEN \E g \in Garbage :
                LET r == merge_sort(n, a, g)
                IN /\ a' = r.arr
                   /\ buffer' = r.buffer
                   /\ freed' = IF r.released THEN Append(freed, "buffer")
                                             ELSE freed
                   /\ pc' = "print"
                   /\ UNCHANGED rc
         ELSE /\ rc' = 1
              /\ pc' = "exited"
              /\ UNCHANGED <<a, buffer, freed>>
    /\ UNCHANGED <<argv, out, mergeOthers>>

\* The printing loop, then free(a)
MergePrint ==
    /\ pc = "print"
    /\ out' = [x \in 1..n |-> a[x - 1]]
    /\ freed' = Append(freed, "a")
    /\ pc' = "done"
    /\ UNCHANGED <<argv, rc, a, buffer, mergeOthers>>

MergeNext == MergeStart \/ MergeSort \/ MergePrint

MergeSpec == MergeInit /\ [][MergeNext]_vars

\* -------------------------------------------------------- tree_sort.c
\* The BST handle and the BST nodes are heap blocks: [root |-> p] and
\* [data |-> d, left |-> p, right |-> p].
CDSA_TREE_SORT_OK == 0
CDSA_TREE_SORT_FAILED == 1
CDSA_TREE_SORT_NULL == 2
CDSA_TREE_SORT_ALLOC_FAILED == 4

\* A block added to the heap at the address malloc gives
Allocate(h, block) ==
    LET p == malloc(h)
    IN [heap |-> [q \in DOMAIN h \cup {p} |-> IF q = p THEN block ELSE h[q]],
        ret |-> p]

new_bst_node(h, data, left, right, ok) ==
    IF ~ok THEN [heap |-> h, ret |-> NULL]
    ELSE Allocate(h, [data |-> data, left |-> left, right |-> right])

new_bst(h, ok) ==
    IF ~ok THEN [heap |-> h, ret |-> NULL]
    ELSE Allocate(h, [root |-> NULL])

\* The while (1) loop of push_bst, from parent downwards
RECURSIVE push_bst_walk(_, _, _, _)
push_bst_walk(h, parent, data, ok) ==
    IF data <= h[parent].data
    THEN IF h[parent].left = NULL
         THEN LET nw == new_bst_node(h, data, NULL, NULL, ok)
              IN [heap |-> [nw.heap EXCEPT ![parent].left = nw.ret],
                  ret |-> IF nw.ret = NULL THEN CDSA_TREE_SORT_ALLOC_FAILED
                                           ELSE CDSA_TREE_SORT_OK]
         ELSE push_bst_walk(h, h[parent].left, data, ok)
    ELSE IF h[parent].right = NULL
         THEN LET nw == new_bst_node(h, data, NULL, NULL, ok)
              IN [heap |-> [nw.heap EXCEPT ![parent].right = nw.ret],
                  ret |-> IF nw.ret = NULL THEN CDSA_TREE_SORT_ALLOC_FAILED
                                           ELSE CDSA_TREE_SORT_OK]
         ELSE push_bst_walk(h, h[parent].right, data, ok)

\* push_bst of tree_sort.c; t is the pointer to the handle
push_bst(h, t, data, ok) ==
    IF h[t].root = NULL
    THEN LET nw == new_bst_node(h, data, NULL, NULL, ok)
         IN [heap |-> [nw.heap EXCEPT ![t].root = nw.ret],
             ret |-> IF nw.ret = NULL THEN CDSA_TREE_SORT_ALLOC_FAILED
                                      ELSE CDSA_TREE_SORT_OK]
    ELSE push_bst_walk(h, h[t].root, data, ok)

RECURSIVE clear_bst_recursive(_, _)
clear_bst_recursive(h, node) ==
    IF node # NULL
    THEN LET l == clear_bst_recursive(h, h[node].left)
             r == clear_bst_recursive(l.heap, h[node].right)
         IN [heap |-> free(r.heap, node),
             freed |-> l.freed \o r.freed \o <<node>>]
    ELSE [heap |-> h, freed |-> <<>>]

clear_bst(h, t) ==
    IF t = NULL
    THEN [heap |-> h, freed |-> <<>>, ret |-> CDSA_TREE_SORT_NULL]
    ELSE LET c == clear_bst_recursive(h, h[t].root)
         IN [heap |-> [c.heap EXCEPT ![t].root = NULL],
             freed |-> c.freed, ret |-> CDSA_TREE_SORT_OK]

\* destroy_bst(&tree); tree is the new value of the caller's pointer
destroy_bst(h, t) ==
    IF t = NULL
    THEN [heap |-> h, freed |-> <<>>, tree |-> t, ret |-> CDSA_TREE_SORT_OK]
    ELSE LET c == clear_bst(h, t)
         IN [heap |-> free(c.heap, t), freed |-> Append(c.freed, t),
             tree |-> NULL, ret |-> CDSA_TREE_SORT_OK]

\* index is *index_ref
RECURSIVE tree_sort_recursive(_, _, _, _)
\* Slip: the right subtree is written out first
tree_sort_recursive_right_first(h, arr, index, node) ==
    IF node = NULL THEN [arr |-> arr, index |-> index]
    ELSE LET r == tree_sort_recursive(h, arr, index, h[node].right)
             self == [r.arr EXCEPT ![r.index] = h[node].data]
         IN tree_sort_recursive(h, self, r.index + 1, h[node].left)

tree_sort_recursive(h, arr, index, node) ==
    IF node = NULL THEN [arr |-> arr, index |-> index]
    ELSE LET l == tree_sort_recursive(h, arr, index, h[node].left)
             self == [l.arr EXCEPT ![l.index] = h[node].data]
         IN tree_sort_recursive(h, self, l.index + 1, h[node].right)

\* The for loop of tree_sort from index k on.  failAt is the number of the
\* allocation of this call that fails (0: none does); allocs are the pointers
\* malloc has returned so far.
RECURSIVE tree_sort_push_loop(_, _, _, _, _, _, _)
tree_sort_push_loop(h, t, arr_count, arr, k, failAt, allocs) ==
    IF k < arr_count
    THEN LET ok == Len(allocs) + 1 # failAt
             p == push_bst(h, t, arr[k], ok)
             got == IF ok THEN malloc(h) ELSE NULL
         IN IF p.ret # CDSA_TREE_SORT_OK
            THEN [heap |-> p.heap, rc |-> CDSA_TREE_SORT_FAILED,
                  allocs |-> Append(allocs, got)]
            ELSE tree_sort_push_loop(p.heap, t, arr_count, arr, k + 1, failAt,
                                     Append(allocs, got))
    ELSE [heap |-> h, rc |-> CDSA_TREE_SORT_OK, allocs |-> allocs]

\* tree_sort(arr_count, arr) of tree_sort.c, arr not NULL
tree_sort(h, arr_count, arr, failAt) ==
    IF arr_count < 2
    THEN [heap |-> h, arr |-> arr, ret |-> CDSA_TREE_SORT_OK,
          freed |-> <<>>, allocs |-> <<>>]
    ELSE LET t == new_bst(h, failAt # 1)
         IN IF t.ret = NULL
            THEN [heap |-> t.heap, arr |-> arr,
                  ret |-> CDSA_TREE_SORT_ALLOC_FAILED,
                  freed |-> <<>>, allocs |-> <<NULL>>]
            ELSE LET pushed == tree_sort_push_loop(t.heap, t.ret, arr_count,
                                                   arr, 0, failAt, <<t.ret>>)
                     walked == IF pushed.rc = CDSA_TREE_SORT_OK
                               THEN tree_sort_recursive(pushed.heap, arr, 0,
                                        pushed.heap[t.ret].root).arr
                               ELSE arr
                     d == destroy_bst(pushed.heap, t.ret)
                 IN [heap |-> d.heap, arr |-> walked,
                     ret |-> IF d.ret # CDSA_TREE_SORT_OK
                             THEN CDSA_TREE_SORT_FAILED ELSE pushed.rc,
                     freed |-> d.freed, allocs |-> pushed.allocs]

\* What main() of tree_sort.c never touches
treeOthers == <<i, root, buffer, tree, visited>>

TreeInit ==
    /\ argv \in BoundedArrays
    /\ pc = "start"
    /\ rc = 0
    /\ a = <<>>
    /\ temp = CDSA_TREE_SORT_OK
    /\ heap = EmptyHeap
    /\ freed = <<>>
    /\ frames = <<>>
    /\ out = <<>>
    /\ i = 0
    /\ root = NULL
    /\ buffer = <<>>
    /\ visited = <<>>
    /\ tree = NULL

\* main() up to the call: n <= 0 returns 0; a = malloc(...) may fail; the
\* loop copies the arguments into a
TreeStart ==
    /\ pc = "start"
    /\ IF n <= 0
       THEN /\ pc' = "done"
            /\ UNCHANGED <<rc, a>>
       ELSE \E ok \in BOOLEAN :
              IF ok
              THEN /\ a' = [x \in 0..(n - 1) |-> argv[x + 1]]
                   /\ pc' = "sort"
                   /\ UNCHANGED rc
              ELSE /\ rc' = 1
                   /\ pc' = "done"
                   /\ UNCHANGED a
    /\ UNCHANGED <<argv, temp, heap, freed, frames, out, treeOthers>>

\* tree_sort(n, a); any one of its allocations may fail
TreeSort ==
    /\ pc = "sort"
    /\ \E failAt \in 0..(n + 1) :
         LET r == tree_sort(heap, n, a, failAt)
         IN /\ a' = r.arr
            /\ temp' = r.ret
            /\ heap' = r.heap
            /\ freed' = r.freed
            /\ frames' = r.allocs
    /\ pc' = "print"
    /\ UNCHANGED <<argv, rc, out, treeOthers>>

\* The printing loop, then free(a)
TreePrint ==
    /\ pc = "print"
    /\ out' = [x \in 1..n |-> a[x - 1]]
    /\ pc' = "done"
    /\ UNCHANGED <<argv, rc, a, temp, heap, freed, frames, treeOthers>>

TreeNext == TreeStart \/ TreeSort \/ TreePrint

TreeSpec == TreeInit /\ [][TreeNext]_vars

\* ------------------------------------------------------- simple_bst.c
\* Same heap blocks as tree_sort.c.  The functions that tree_sort.c also
\* defines carry the file's name in front.
CDSA_SIMPLE_BST_OK == 0
CDSA_SIMPLE_BST_NULL == 2
CDSA_SIMPLE_BST_ALLOC_FAILED == 4
CDSA_SIMPLE_BST_NOT_FOUND == 5

simple_bst_new_bst_node(h, data, left, right, ok) ==
    IF ~ok THEN [heap |-> h, ret |-> NULL]
    ELSE Allocate(h, [data |-> data, left |-> left, right |-> right])

simple_bst_new_bst(h, ok) ==
    IF ~ok THEN [heap |-> h, ret |-> NULL]
    ELSE Allocate(h, [root |-> NULL])

\* The loop of push_bst and the store through current, where current is the
\* address of field fld of block owner
RECURSIVE simple_bst_push_bst_at(_, _, _, _, _)
simple_bst_push_bst_at(h, owner, fld, data, ok) ==
    IF h[owner][fld] # NULL
    THEN IF data <= h[h[owner][fld]].data
         THEN simple_bst_push_bst_at(h, h[owner][fld], "left", data, ok)
         ELSE simple_bst_push_bst_at(h, h[owner][fld], "right", data, ok)
    ELSE LET nw == simple_bst_new_bst_node(h, data, NULL, NULL, ok)
         IN [heap |-> [nw.heap EXCEPT ![owner][fld] = nw.ret],
             ret |-> IF nw.ret = NULL THEN CDSA_SIMPLE_BST_ALLOC_FAILED
                                      ELSE CDSA_SIMPLE_BST_OK]

simple_bst_push_bst(h, t, data, ok) ==
    IF t = NULL THEN [heap |-> h, ret |-> CDSA_SIMPLE_BST_NULL]
    ELSE simple_bst_push_bst_at(h, t, "root", data, ok)

bst_replace_node(h, t, parent, is_right_child, new_node) ==
    IF parent = NULL THEN [h EXCEPT ![t].root = new_node]
    ELSE IF is_right_child # 0 THEN [h EXCEPT ![parent].right = new_node]
    ELSE [h EXCEPT ![parent].left = new_node]

\* The while loop of pop_bst_search
RECURSIVE pop_bst_search_loop(_, _, _, _, _)
pop_bst_search_loop(h, node, parent, is_right_child, data) ==
    IF node # NULL /\ h[node].data # data
    THEN IF data < h[node].data
         THEN pop_bst_search_loop(h, h[node].left, node, 0, data)
         ELSE pop_bst_search_loop(h, h[node].right, node, 1, data)
    ELSE [node |-> node, parent |-> parent, is_right_child |-> is_right_child]

\* The out-parameters are written only when the node was found
pop_bst_search(h, t, data) ==
    LET f == pop_bst_search_loop(h, h[t].root, NULL, 0, data)
    IN IF f.node = NULL
       THEN [ret |-> CDSA_SIMPLE_BST_NOT_FOUND, node |-> NULL,
             parent |-> NULL, is_right_child |-> 0]
       ELSE [ret |-> CDSA_SIMPLE_BST_OK, node |-> f.node,
             parent |-> f.parent, is_right_child |-> f.is_right_child]

\* The while (pred->right != NULL) loop of pop_bst
RECURSIVE pop_bst_predecessor(_, _, _)
\* Slip: the left child is taken as the predecessor without walking right
pop_bst_predecessor_no_walk(h, pred_parent, pred) ==
    [pred_parent |-> pred_parent, pred |-> pred]

pop_bst_predecessor(h, pred_parent, pred) ==
    IF h[pred].right # NULL
    THEN pop_bst_predecessor(h, pred, h[pred].right)
    ELSE [pred_parent |-> pred_parent, pred |-> pred]

pop_bst(h, t, data) ==
    IF t = NULL
    THEN [heap |-> h, ret |-> CDSA_SIMPLE_BST_NULL, freed |-> <<>>]
    ELSE
    LET s == pop_bst_search(h, t, data)
        node == s.node
    IN IF s.ret = CDSA_SIMPLE_BST_NOT_FOUND
       THEN [heap |-> h, ret |-> CDSA_SIMPLE_BST_NOT_FOUND, freed |-> <<>>]
       ELSE IF h[node].left = NULL /\ h[node].right = NULL
       THEN [heap |-> free(bst_replace_node(h, t, s.parent, s.is_right_child,
                                            NULL), node),
             ret |-> CDSA_SIMPLE_BST_OK, freed |-> <<node>>]
       ELSE IF h[node].left = NULL \/ h[node].right = NULL
       THEN [heap |-> free(bst_replace_node(h, t, s.parent, s.is_right_child,
                               IF h[node].left # NULL THEN h[node].left
                                                      ELSE h[node].right),
                           node),
             ret |-> CDSA_SIMPLE_BST_OK, freed |-> <<node>>]
       ELSE LET p == pop_bst_predecessor(h, node, h[node].left)
                h1 == [h EXCEPT ![node].data = h[p.pred].data]
                h2 == IF h1[p.pred_parent].right = p.pred
                      THEN [h1 EXCEPT ![p.pred_parent].right = h1[p.pred].left]
                      ELSE [h1 EXCEPT ![p.pred_parent].left = h1[p.pred].left]
            IN [heap |-> free(h2, p.pred), ret |-> CDSA_SIMPLE_BST_OK,
                freed |-> <<p.pred>>]

\* A client of simple_bst.c holding one tree made by new_bst(): temp is the
\* value handed to the last call, rc what it returned, freed the blocks it
\* freed, frames the pointers malloc returned to it
bstOthers == <<argv, i, root, out, a, buffer, visited>>

BstInit ==
    /\ heap = simple_bst_new_bst(EmptyHeap, TRUE).heap
    /\ tree = simple_bst_new_bst(EmptyHeap, TRUE).ret
    /\ pc = "made"
    /\ temp = 0
    /\ rc = CDSA_SIMPLE_BST_OK
    /\ freed = <<>>
    /\ frames = <<>>
    /\ argv = <<>>
    /\ i = 0
    /\ root = NULL
    /\ out = <<>>
    /\ a = <<>>
    /\ buffer = <<>>
    /\ visited = <<>>

BstPush ==
    /\ pc \in {"made", "pushed", "popped"}
    /\ Cardinality(DOMAIN heap) <= MaxBstNodes
    /\ \E data \in Keys, ok \in BOOLEAN :
         LET r == simple_bst_push_bst(heap, tree, data, ok)
         IN /\ temp' = data
            /\ heap' = r.heap
            /\ rc' = r.ret
            /\ frames' = <<IF ok THEN malloc(heap) ELSE NULL>>
    /\ freed' = <<>>
    /\ pc' = "pushed"
    /\ UNCHANGED <<tree, bstOthers>>

BstPop ==
    /\ pc \in {"made", "pushed", "popped"}
    /\ \E data \in Keys :
         LET r == pop_bst(heap, tree, data)
         IN /\ temp' = data
            /\ heap' = r.heap
            /\ rc' = r.ret
            /\ freed' = r.freed
    /\ frames' = <<>>
    /\ pc' = "popped"
    /\ UNCHANGED <<tree, bstOthers>>

BstNext == BstPush \/ BstPop

BstSpec == BstInit /\ [][BstNext]_vars

\* --------------------------------------------- tree_sort_no_recursion.c
\* BSTStack and BSTStackNode are heap blocks as well: [top |-> p] and
\* [tree_node |-> p, down |-> p].  The functions that tree_sort.c also
\* defines carry no_recursion_ in front.  A call of tree_sort works on a
\* record st: the heap, the pointers malloc has returned to the call so far
\* (allocs), the blocks it has freed (freed), and the number failAt of the
\* allocation that fails (0: none does).
C_SORTING_TREE_SORT_OK == 0
C_SORTING_TREE_SORT_FAILED == 1
C_SORTING_TREE_SORT_NULL == 2
C_SORTING_TREE_SORT_EMPTY == 3
C_SORTING_TREE_SORT_ALLOC_FAILED == 4

Booked(h, failAt) ==
    [heap |-> h, allocs |-> <<>>, freed |-> <<>>, failAt |-> failAt]

\* A local variable: v is computed once and Body reads it as x
With(v, Body(_)) == CHOOSE r \in {Body(x) : x \in {v}} : TRUE

\* malloc followed by the stores that fill the block
Malloc(st0, block) ==
    With(st0, LAMBDA st :
      IF Len(st.allocs) + 1 = st.failAt
      THEN [st |-> [st EXCEPT !.allocs = Append(@, NULL)], ret |-> NULL]
      ELSE With(Allocate(st.heap, block), LAMBDA x :
             [st |-> [st EXCEPT !.heap = x.heap,
                                !.allocs = Append(@, x.ret)],
              ret |-> x.ret]))

Free(st, p) == [st EXCEPT !.heap = free(@, p), !.freed = Append(@, p)]

new_bst_stack_node(st, tree_node, down) ==
    Malloc(st, [tree_node |-> tree_node, down |-> down])

new_bst_stack(st) == Malloc(st, [top |-> NULL])

push_bst_stack(st0, stack, tree_node) ==
    With(st0, LAMBDA st :
      IF stack = NULL THEN [st |-> st, ret |-> C_SORTING_TREE_SORT_NULL]
      ELSE With(new_bst_stack_node(st, tree_node, st.heap[stack].top),
             LAMBDA node :
               IF node.ret = NULL
               THEN [st |-> node.st, ret |-> C_SORTING_TREE_SORT_ALLOC_FAILED]
               ELSE [st |-> [node.st EXCEPT !.heap[stack].top = node.ret],
                     ret |-> C_SORTING_TREE_SORT_OK]))

\* pop_bst_stack(stack, &node): node is the variable written through
\* node_ref, left alone when nothing is popped
pop_bst_stack(st0, stack, node) ==
    With(st0, LAMBDA st :
      IF stack = NULL
      THEN [st |-> st, ret |-> C_SORTING_TREE_SORT_NULL, node |-> node]
      ELSE IF st.heap[stack].top = NULL
      THEN [st |-> st, ret |-> C_SORTING_TREE_SORT_EMPTY, node |-> node]
      ELSE LET top == st.heap[stack].top
               down == st.heap[top].down
           IN [st |-> [Free(st, top) EXCEPT !.heap[stack].top = down],
               ret |-> C_SORTING_TREE_SORT_OK,
               node |-> st.heap[top].tree_node])

\* The while ((*stack_ref)->top) loop of destroy_bst_stack
RECURSIVE destroy_bst_stack_loop(_, _)
destroy_bst_stack_loop(st0, stack) ==
    With(st0, LAMBDA st :
      IF st.heap[stack].top # NULL
      THEN LET node == st.heap[stack].top
           IN destroy_bst_stack_loop(
                Free([st EXCEPT !.heap[stack].top = st.heap[node].down],
                     node), stack)
      ELSE st)

\* destroy_bst_stack(&stack); stack is the new value of the caller's pointer
destroy_bst_stack(st, stack) ==
    IF stack = NULL
    THEN [st |-> st, stack |-> NULL, ret |-> C_SORTING_TREE_SORT_OK]
    ELSE [st |-> Free(destroy_bst_stack_loop(st, stack), stack),
          stack |-> NULL, ret |-> C_SORTING_TREE_SORT_OK]

no_recursion_new_bst_node(st, data, left, right) ==
    Malloc(st, [data |-> data, left |-> left, right |-> right])

no_recursion_new_bst(st) == Malloc(st, [root |-> NULL])

\* The while (1) loop of push_bst, from parent downwards; st is read as it
\* stands, the caller holds it in a local
RECURSIVE no_recursion_push_bst_walk(_, _, _)
no_recursion_push_bst_walk(st, parent, data) ==
    IF data <= st.heap[parent].data
    THEN IF st.heap[parent].left = NULL
         THEN With(no_recursion_new_bst_node(st, data, NULL, NULL),
                LAMBDA nw :
                  [st |-> [nw.st EXCEPT !.heap[parent].left = nw.ret],
                   ret |-> IF nw.ret = NULL
                           THEN C_SORTING_TREE_SORT_ALLOC_FAILED
                           ELSE C_SORTING_TREE_SORT_OK])
         ELSE no_recursion_push_bst_walk(st, st.heap[parent].left, data)
    ELSE IF st.heap[parent].right = NULL
         THEN With(no_recursion_new_bst_node(st, data, NULL, NULL),
                LAMBDA nw :
                  [st |-> [nw.st EXCEPT !.heap[parent].right = nw.ret],
                   ret |-> IF nw.ret = NULL
                           THEN C_SORTING_TREE_SORT_ALLOC_FAILED
                           ELSE C_SORTING_TREE_SORT_OK])
         ELSE no_recursion_push_bst_walk(st, st.heap[parent].right, data)

no_recursion_push_bst(st0, t, data) ==
    With(st0, LAMBDA st :
      IF st.heap[t].root = NULL
      THEN With(no_recursion_new_bst_node(st, data, NULL, NULL),
             LAMBDA nw :
               [st |-> [nw.st EXCEPT !.heap[t].root = nw.ret],
                ret |-> IF nw.ret = NULL THEN C_SORTING_TREE_SORT_ALLOC_FAILED
                                         ELSE C_SORTING_TREE_SORT_OK])
      ELSE no_recursion_push_bst_walk(st, st.heap[t].root, data))

\* if (node->left) push_bst_stack(s1, node->left), and the same for right
no_recursion_clear_bst_push_child(st0, s1, child) ==
    With(st0, LAMBDA st :
      IF child # NULL THEN push_bst_stack(st, s1, child)
      ELSE [st |-> st, ret |-> C_SORTING_TREE_SORT_OK])

\* The while (s1->top) loop of clear_bst
RECURSIVE no_recursion_clear_bst_fill(_, _, _)
no_recursion_clear_bst_fill(st0, s1, s2) ==
    With(st0, LAMBDA st :
      IF st.heap[s1].top = NULL
      THEN [st |-> st, rc |-> C_SORTING_TREE_SORT_OK]
      ELSE
      With(pop_bst_stack(st, s1, NULL), LAMBDA p :
      With(push_bst_stack(p.st, s2, p.node), LAMBDA q :
        IF q.ret # C_SORTING_TREE_SORT_OK
        THEN [st |-> q.st, rc |-> C_SORTING_TREE_SORT_FAILED]
        ELSE
        With(no_recursion_clear_bst_push_child(q.st, s1,
                                               q.st.heap[p.node].left),
          LAMBDA l :
          IF l.ret # C_SORTING_TREE_SORT_OK
          THEN [st |-> l.st, rc |-> C_SORTING_TREE_SORT_FAILED]
          ELSE
          With(no_recursion_clear_bst_push_child(l.st, s1,
                                                 l.st.heap[p.node].right),
            LAMBDA r :
            IF r.ret # C_SORTING_TREE_SORT_OK
            THEN [st |-> r.st, rc |-> C_SORTING_TREE_SORT_FAILED]
            ELSE no_recursion_clear_bst_fill(r.st, s1, s2))))))

\* The while (s2->top) loop of clear_bst
RECURSIVE no_recursion_clear_bst_drain(_, _)
no_recursion_clear_bst_drain(st0, s2) ==
    With(st0, LAMBDA st :
      IF st.heap[s2].top = NULL THEN st
      ELSE With(pop_bst_stack(st, s2, NULL), LAMBDA p :
             no_recursion_clear_bst_drain(Free(p.st, p.node), s2)))

\* clear_bst from the first push_bst_stack(s1, tree->root) to the label
\* cleanup_clear_bst
no_recursion_clear_bst_body(st, t, s1, s2) ==
    With(push_bst_stack(st, s1, st.heap[t].root), LAMBDA first :
      IF first.ret # C_SORTING_TREE_SORT_OK
      THEN [st |-> first.st, rc |-> C_SORTING_TREE_SORT_FAILED]
      ELSE With(no_recursion_clear_bst_fill(first.st, s1, s2),
             LAMBDA filled :
               IF filled.rc # C_SORTING_TREE_SORT_OK THEN filled
               ELSE [st |-> [no_recursion_clear_bst_drain(filled.st, s2)
                               EXCEPT !.heap[t].root = NULL],
                     rc |-> C_SORTING_TREE_SORT_OK]))

no_recursion_clear_bst(st0, t) ==
    With(st0, LAMBDA st :
      IF t = NULL THEN [st |-> st, ret |-> C_SORTING_TREE_SORT_NULL]
      ELSE IF st.heap[t].root = NULL
      THEN [st |-> st, ret |-> C_SORTING_TREE_SORT_OK]
      ELSE
      With(new_bst_stack(st), LAMBDA s1 :
        IF s1.ret = NULL
        THEN [st |-> s1.st, ret |-> C_SORTING_TREE_SORT_ALLOC_FAILED]
        ELSE
        With(new_bst_stack(s1.st), LAMBDA s2 :
          IF s2.ret = NULL
          THEN [st |-> destroy_bst_stack(s2.st, s1.ret).st,
                ret |-> C_SORTING_TREE_SORT_ALLOC_FAILED]
          ELSE
          With(no_recursion_clear_bst_body(s2.st, t, s1.ret, s2.ret),
            LAMBDA body :
              [st |-> destroy_bst_stack(
                        destroy_bst_stack(body.st, s1.ret).st, s2.ret).st,
               ret |-> body.rc]))))

\* destroy_bst(&tree); tree is the new value of the caller's pointer
no_recursion_destroy_bst(st, t) ==
    IF t = NULL
    THEN [st |-> st, tree |-> t, ret |-> C_SORTING_TREE_SORT_OK]
    ELSE With(no_recursion_clear_bst(st, t), LAMBDA c :
           IF c.ret # C_SORTING_TREE_SORT_OK
           THEN [st |-> c.st, tree |-> t, ret |-> C_SORTING_TREE_SORT_FAILED]
           ELSE [st |-> Free(c.st, t), tree |-> NULL,
                 ret |-> C_SORTING_TREE_SORT_OK])

\* The for loop of tree_sort from index k on
RECURSIVE no_recursion_tree_sort_push_loop(_, _, _, _, _)
no_recursion_tree_sort_push_loop(st, t, arr_count, arr, k) ==
    IF k < arr_count
    THEN With(no_recursion_push_bst(st, t, arr[k]), LAMBDA p :
           IF p.ret # C_SORTING_TREE_SORT_OK
           THEN [st |-> p.st, rc |-> C_SORTING_TREE_SORT_FAILED]
           ELSE no_recursion_tree_sort_push_loop(p.st, t, arr_count, arr,
                                                 k + 1))
    ELSE [st |-> st, rc |-> C_SORTING_TREE_SORT_OK]

\* while (current || stack->top): the inner while pushes current and goes
\* left until current is NULL; then one node is popped, written to arr[idx]
\* and the walk goes right.  seen lists the nodes written so far.
RECURSIVE no_recursion_tree_sort_walk(_, _, _, _, _, _)
\* Slip: the walk goes right first and left after the pop
no_recursion_tree_sort_walk_right_first(st0, stack, current, arr, idx, seen) ==
    With(st0, LAMBDA st :
      IF current # NULL
      THEN With(push_bst_stack(st, stack, current), LAMBDA p :
             IF p.ret # C_SORTING_TREE_SORT_OK
             THEN [st |-> p.st, arr |-> arr,
                   rc |-> C_SORTING_TREE_SORT_FAILED, seen |-> seen]
             ELSE no_recursion_tree_sort_walk(p.st, stack,
                      p.st.heap[current].right, arr, idx, seen))
      ELSE IF st.heap[stack].top # NULL
      THEN With(pop_bst_stack(st, stack, current), LAMBDA p :
             no_recursion_tree_sort_walk(p.st, stack,
                 p.st.heap[p.node].left,
                 [arr EXCEPT ![idx] = p.st.heap[p.node].data], idx + 1,
                 Append(seen, p.node)))
      ELSE [st |-> st, arr |-> arr, rc |-> C_SORTING_TREE_SORT_OK,
            seen |-> seen])

no_recursion_tree_sort_walk(st0, stack, current, arr, idx, seen) ==
    With(st0, LAMBDA st :
      IF current # NULL
      THEN With(push_bst_stack(st, stack, current), LAMBDA p :
             IF p.ret # C_SORTING_TREE_SORT_OK
             THEN [st |-> p.st, arr |-> arr,
                   rc |-> C_SORTING_TREE_SORT_FAILED, seen |-> seen]
             ELSE no_recursion_tree_sort_walk(p.st, stack,
                      p.st.heap[current].left, arr, idx, seen))
      ELSE IF st.heap[stack].top # NULL
      THEN With(pop_bst_stack(st, stack, current), LAMBDA p :
             no_recursion_tree_sort_walk(p.st, stack,
                 p.st.heap[p.node].right,
                 [arr EXCEPT ![idx] = p.st.heap[p.node].data], idx + 1,
                 Append(seen, p.node)))
      ELSE [st |-> st, arr |-> arr, rc |-> C_SORTING_TREE_SORT_OK,
            seen |-> seen])

\* What tree_sort hands back: the heap, the array, the code, and the record
\* of the call
Returned(st, arr, ret, seen) ==
    [heap |-> st.heap, arr |-> arr, ret |-> ret, freed |-> st.freed,
     allocs |-> st.allocs, seen |-> seen]

\* tree_sort from the label cleanup_tree_sort on
no_recursion_tree_sort_cleanup(walked, stack, t) ==
    With(no_recursion_destroy_bst(destroy_bst_stack(walked.st, stack).st, t),
      LAMBDA db :
        Returned(db.st, walked.arr,
                 IF db.ret # C_SORTING_TREE_SORT_OK
                 THEN C_SORTING_TREE_SORT_FAILED ELSE walked.rc,
                 walked.seen))

\* tree_sort(arr_count, arr) of tree_sort_no_recursion.c, arr not NULL
no_recursion_tree_sort(h, arr_count, arr, failAt) ==
    IF arr_count < 2
    THEN Returned(Booked(h, failAt), arr, C_SORTING_TREE_SORT_OK, <<>>)
    ELSE
    With(new_bst_stack(Booked(h, failAt)), LAMBDA stack :
      IF stack.ret = NULL
      THEN Returned(stack.st, arr, C_SORTING_TREE_SORT_ALLOC_FAILED, <<>>)
      ELSE
      With(no_recursion_new_bst(stack.st), LAMBDA t :
        IF t.ret = NULL
        THEN Returned(Free(t.st, stack.ret), arr,
                      C_SORTING_TREE_SORT_ALLOC_FAILED, <<>>)
        ELSE
        With(no_recursion_tree_sort_push_loop(t.st, t.ret, arr_count, arr, 0),
          LAMBDA pushed :
            IF pushed.rc # C_SORTING_TREE_SORT_OK
            THEN no_recursion_tree_sort_cleanup(
                   [st |-> pushed.st, arr |-> arr, rc |-> pushed.rc,
                    seen |-> <<>>], stack.ret, t.ret)
            ELSE With(no_recursion_tree_sort_walk(pushed.st, stack.ret,
                          pushed.st.heap[t.ret].root, arr, 0, <<>>),
                   LAMBDA walked :
                     no_recursion_tree_sort_cleanup(walked, stack.ret,
                                                    t.ret)))))

\* The allocations of one tree_sort call on n elements when none fails: the
\* stack, the tree, n nodes, n pushes of the walk, and in clear_bst two
\* stacks and 2 * n pushes
Allocations(count) == 4 * count + 4

\* What main() of tree_sort_no_recursion.c never touches
noRecursionOthers == <<i, root, buffer, tree>>

\* The command lines given to tree_sort_no_recursion.c
NoRecursionArrays == UNION {[1..k -> Keys] : k \in 0..MaxWalkLen}

NoRecursionInit ==
    /\ argv \in NoRecursionArrays
    /\ pc = "start"
    /\ rc = 0
    /\ a = <<>>
    /\ temp = C_SORTING_TREE_SORT_OK
    /\ heap = EmptyHeap
    /\ freed = <<>>
    /\ frames = <<>>
    /\ out = <<>>
    /\ i = 0
    /\ root = NULL
    /\ buffer = <<>>
    /\ visited = <<>>
    /\ tree = NULL

\* main() up to the call: n <= 0 returns 0; a = malloc(...) may fail; the
\* loop copies the arguments into a
NoRecursionStart ==
    /\ pc = "start"
    /\ IF n <= 0
       THEN /\ pc' = "done"
            /\ UNCHANGED <<rc, a>>
       ELSE \E ok \in BOOLEAN :
              IF ok
              THEN /\ a' = [x \in 0..(n - 1) |-> argv[x + 1]]
                   /\ pc' = "sort"
                   /\ UNCHANGED rc
              ELSE /\ rc' = 1
                   /\ pc' = "done"
                   /\ UNCHANGED a
    /\ UNCHANGED <<argv, temp, heap, freed, frames, out, visited,
                   noRecursionOthers>>

\* tree_sort(n, a); any one of its allocations may fail
NoRecursionSort ==
    /\ pc = "sort"
    /\ \E failAt \in 0..Allocations(n) :
         LET r == no_recursion_tree_sort(heap, n, a, failAt)
         IN /\ a' = r.arr
            /\ temp' = r.ret
            /\ heap' = r.heap
            /\ freed' = r.freed
            /\ frames' = r.allocs
            /\ visited' = r.seen
    /\ pc' = "print"
    /\ UNCHANGED <<argv, rc, out, noRecursionOthers>>

\* The printing loop, then free(a)
NoRecursionPrint ==
    /\ pc = "print"
    /\ out' = [x \in 1..n |-> a[x - 1]]
    /\ pc' = "done"
    /\ UNCHANGED <<argv, rc, a, temp, heap, freed, frames, visited,
                   noRecursionOthers>>

NoRecursionNext == NoRecursionStart \/ NoRecursionSort \/ NoRecursionPrint

NoRecursionSpec == NoRecursionInit /\ [][NoRecursionNext]_vars

\* ------------------------------------------- reading a tree off the heap
RECURSIVE Nodes(_, _)
Nodes(h, node) ==
    IF node = NULL THEN {}
    ELSE {node} \cup Nodes(h, h[node].left) \cup Nodes(h, h[node].right)

\* The keys in left-self-right order
RECURSIVE InOrder(_, _)
InOrder(h, node) ==
    IF node = NULL THEN <<>>
    ELSE InOrder(h, h[node].left) \o <<h[node].data>> \o InOrder(h, h[node].right)

KeysUnder(h, node) == {h[m].data : m \in Nodes(h, node)}

\* The height recomputed by walking the subtree
RECURSIVE TrueHeight(_, _)
TrueHeight(h, node) ==
    IF node = NULL THEN 0
    ELSE 1 + MAXIMUM(TrueHeight(h, h[node].left), TrueHeight(h, h[node].right))

Abs(x) == IF x < 0 THEN -x ELSE x

Count(seq, k) == Cardinality({j \in DOMAIN seq : seq[j] = k})

Range(seq) == {seq[j] : j \in DOMAIN seq}

Prefix(seq, k) == [j \in 1..k |-> seq[j]]

\* main() holds a tree that the last insert_avl call returned (or the empty
\* tree): in the loop between two calls, and at cleanup_main
TreeObservable == pc \in {"loop", "cleanup"}

\* The last insert_avl call applied a rotation at some level
Rotated == \E j \in DOMAIN frames : frames[j].rot # "none"

\* The step is one call of insert_avl from main()
InsertStep == pc = "loop" /\ i < n /\ vars' # vars

\* ----------------------------------------------------------------- C1
\* C1: after each successful insert_avl call every node of the tree has
\* |height(left) - height(right)| <= 1.
C1_Balanced ==
    TreeObservable =>
        \A nd \in Nodes(heap, root) : Abs(get_avl_balance(heap, nd)) <= 1

\* ----------------------------------------------------------------- C2
\* C2 (as stated): after each successful insert_avl call, at every node N all
\* keys of the left subtree are < N.key and all keys of the right subtree are
\* >= N.key.
C2_StrictOrdering ==
    TreeObservable =>
        \A nd \in Nodes(heap, root) :
            /\ \A k \in KeysUnder(heap, heap[nd].left) : k < heap[nd].data
            /\ \A k \in KeysUnder(heap, heap[nd].right) : k >= heap[nd].data

\* C2 (amended): after each successful insert_avl call, at every node N all
\* keys of the left subtree are <= N.key and all keys of the right subtree
\* are >= N.key.
C2_WeakOrdering ==
    TreeObservable =>
        \A nd \in Nodes(heap, root) :
            /\ \A k \in KeysUnder(heap, heap[nd].left) : k <= heap[nd].data
            /\ \A k \in KeysUnder(heap, heap[nd].right) : k >= heap[nd].data

\* A rotation has moved a key equal to a node's key into its left subtree
C2_Witness ==
    /\ pc = "loop"
    /\ Rotated
    /\ \E nd \in Nodes(heap, root) :
          heap[nd].data \in KeysUnder(heap, heap[nd].left)

\* ----------------------------------------------------------------- C3
\* C3: no insert_avl call reachable from the empty tree calls a rotation
\* without its required child or dereferences an absent node.
C3_NoNullDereference == pc # "crashed"

\* ----------------------------------------------------------------- C4
\* C4: after every successful insert_avl call the multiset of keys in the
\* nodes reachable from the root is exactly the multiset of keys inserted.
C4_Membership ==
    TreeObservable =>
        LET stored == InOrder(heap, root)
            given == Prefix(argv, i)
        IN /\ Len(stored) = i
           /\ Cardinality(Nodes(heap, root)) = i
           /\ \A k \in Range(stored) \cup Range(given) :
                  Count(stored, k) = Count(given, k)

\* Several keys, one of them repeated, are in and the last call rotated
C4_Witness ==
    /\ pc = "loop"
    /\ i >= 4
    /\ Rotated
    /\ \E k \in Range(argv) : Count(Prefix(argv, i), k) >= 2

\* ----------------------------------------------------------------- C5
\* C5: after every successful insert_avl call each node's stored height is
\* 1 + max(height(left), height(right)), an absent child counting 0, and is
\* the height recomputed from scratch.
C5_HeightsCorrect ==
    TreeObservable =>
        \A nd \in Nodes(heap, root) :
            /\ heap[nd].height =
                  1 + MAXIMUM(get_avl_height(heap, heap[nd].left),
                              get_avl_height(heap, heap[nd].right))
            /\ heap[nd].height = TrueHeight(heap, nd)

\* A tree of height 3 whose last insertion rotated
C5_Witness ==
    /\ pc = "loop"
    /\ Rotated
    /\ get_avl_height(heap, root) >= 3

\* ----------------------------------------------------------------- C6
\* C6: if the node allocation fails during insert_avl(root, key), every
\* recursion level returns NULL and the heap is exactly as before the call:
\* no link, height or key of an existing node has changed.  The first frame
\* of a call is the level that reached the absent child and allocated.
AllocationFailed == frames[1].node = NULL /\ frames[1].ret = NULL

C6_FailureLeavesTreeIntact ==
    [][(InsertStep /\ AllocationFailed') =>
          /\ \A j \in DOMAIN frames' : frames'[j].ret = NULL
          /\ temp' = NULL
          /\ heap' = heap
          /\ root' = root
          /\ rc' = 1
          /\ pc' = "cleanup"]_vars

\* An allocation failed under a tree of height >= 2: three levels returned
C6_Witness ==
    /\ pc = "cleanup"
    /\ rc = 1
    /\ frames # <<>>
    /\ AllocationFailed
    /\ Len(frames) >= 3
    /\ DOMAIN heap # {}

\* ----------------------------------------------------------------- C7
\* floor(1.44 * log2(k + 1)) for k = 1..15
HeightBound(k) == <<1, 2, 2, 3, 3, 4, 4, 4, 4, 4, 5, 5, 5, 5, 5>>[k]

\* C7: after k >= 1 keys are inserted (repeated keys allowed) the height of
\* the tree is at most 1.44 * log2(k + 1).
C7_HeightBound ==
    (TreeObservable /\ i >= 1 /\ i <= 15) =>
        /\ get_avl_height(heap, root) <= HeightBound(i)
        /\ TrueHeight(heap, root) <= HeightBound(i)

\* ----------------------------------------------------------------- C8
\* The printed lines as (key, depth) pairs
Rendered(lines) ==
    [j \in DOMAIN lines |-> <<lines[j].data, lines[j].indent \div 4>>]

Printed == pc \in {"cleanup", "done"} /\ rc = 0 /\ n > 0

\* C8 (as stated): the eleven keys 10, 3, 10, 2, 1, -100, 4, 95, 3, 489, 78
\* give the right-self-left sequence (489,2) (95,1) (78,2) (10,0) (4,1) (3,2)
\* (3,0) (2,1) (1,2) (-100,3).
C8_ScenarioAsStated ==
    (argv = ScenarioKeys /\ Printed) =>
        Rendered(out) = << <<489, 2>>, <<95, 1>>, <<78, 2>>, <<10, 0>>,
                           <<4, 1>>, <<3, 2>>, <<3, 0>>, <<2, 1>>, <<1, 2>>,
                           <<-100, 3>> >>

\* C8 (amended): the eleven keys give the right-self-left sequence (489,2)
\* (95,1) (78,3) (10,2) (10,0) (4,3) (3,2) (3,3) (2,1) (1,2) (-100,3).
C8_ScenarioEleven ==
    (argv = ScenarioKeys /\ Printed) =>
        Rendered(out) = << <<489, 2>>, <<95, 1>>, <<78, 3>>, <<10, 2>>,
                           <<10, 0>>, <<4, 3>>, <<3, 2>>, <<3, 3>>, <<2, 1>>,
                           <<1, 2>>, <<-100, 3>> >>

C8_Witness == argv = ScenarioKeys /\ Printed /\ Len(out) = 11

Position(seq, x) == CHOOSE j \in DOMAIN seq : seq[j] = x

\* C10: destroy_avl frees every node reachable from the root exactly once,
\* each node after both of its children, does nothing on the NULL root, and
\* leaves no node allocated (the count before the first insertion).
C10_DestroyReleasesAll ==
    [][(pc = "cleanup" /\ pc' = "done") =>
          LET N == Nodes(heap, root)
          IN /\ Range(freed') = N
             /\ Len(freed') = Cardinality(N)
             /\ \A nd \in N : \A c \in {heap[nd].left, heap[nd].right} \ {NULL} :
                    Position(freed', c) < Position(freed', nd)
             /\ DOMAIN heap' = {}
             /\ root = NULL => (freed' = <<>> /\ heap' = heap)]_vars

\* A tree of four or more nodes has been destroyed
C10_Witness ==
    /\ pc = "done"
    /\ Len(freed) >= 4
    /\ DOMAIN heap = {}

\* ---------------------------------------------------------------- C11
\* The number of edges from the root rt down to node nd: its proper ancestors
DepthOf(h, rt, nd) ==
    Cardinality({m \in Nodes(h, rt) : m # nd /\ nd \in Nodes(h, m)})

\* m comes before nd in right-subtree, self, left-subtree order: some node c
\* has m in its right subtree and nd not, or is m itself and has nd to its left
ComesBefore(h, rt, m, nd) ==
    \E c \in Nodes(h, rt) :
        \/ m \in Nodes(h, h[c].right) /\ nd \in {c} \cup Nodes(h, h[c].left)
        \/ m = c /\ nd \in Nodes(h, h[c].left)

PlaceOf(h, rt, nd) ==
    1 + Cardinality({m \in Nodes(h, rt) : ComesBefore(h, rt, m, nd)})

PrintStep == pc = "loop" /\ i = n /\ pc' = "cleanup"

\* C11: print_avl_sideways(root, 0) emits every node exactly once, in
\* right-subtree, self, left-subtree order, each with its depth in edges from
\* the root; it emits nothing for the absent node and leaves the tree as it
\* was.
C11_PrintVisitsEachNodeOnce ==
    [][PrintStep =>
          /\ Len(out') = Cardinality(Nodes(heap, root))
          /\ \A nd \in Nodes(heap, root) :
                out'[PlaceOf(heap, root, nd)] =
                    Line(DepthOf(heap, root, nd), heap[nd].data)
          /\ print_avl_sideways(heap, NULL, 0) = <<>>
          /\ heap' = heap
          /\ root' = root]_vars

\* A tree of five or more nodes, one key repeated, has been printed
C11_Witness ==
    /\ pc = "cleanup"
    /\ rc = 0
    /\ Len(out) >= 5
    /\ \E j, k \in DOMAIN out : j # k /\ out[j].data = out[k].data

\* ---------------------------------------------------------------- C15
\* C15: in every insert_avl call the balance factor computed at each node on
\* the insertion path, after its height is recomputed, is in -2..2.
C15_BalanceWithinTwo ==
    \A j \in DOMAIN frames : frames[j].balance \in -2..2

\* ---------------------------------------------------------------- C16
\* C16: whenever a node's balance factor after the height recompute is > 1
\* and the inserted key is >= node.left.key, insert_avl takes the left-right
\* case (node.left rotated left, node rotated right) and returns the new
\* subtree root.
C16_LeftRightOnGreaterOrEqual ==
    \A j \in DOMAIN frames :
        (frames[j].balance > 1 /\ frames[j].data >= frames[j].childKey) =>
            /\ frames[j].rot = "LR"
            /\ frames[j].ret \notin {NULL, frames[j].node}

\* ---------------------------------------------------------------- C17
\* C17: whenever a node's balance factor after the height recompute is < -1
\* and the inserted key is <= node.right.key, insert_avl takes the right-left
\* case (node.right rotated right, node rotated left) and returns the new
\* subtree root.
C17_RightLeftOnLessOrEqual ==
    \A j \in DOMAIN frames :
        (frames[j].balance < -1 /\ frames[j].data <= frames[j].childKey) =>
            /\ frames[j].rot = "RL"
            /\ frames[j].ret \notin {NULL, frames[j].node}

\* ---------------------------------------------------------------- C20
DestroyStep == pc = "cleanup" /\ pc' = "done"

\* print_avl_sideways passes depth + 1 to each nested call, so a node printed
\* with indent 4 * d was handled by the call nested d + 1 deep, and the calls
\* on its absent children are nested d + 2 deep
PrintDepth(lines) ==
    IF lines = <<>> THEN 1
    ELSE 2 + SetMax({lines[j].indent \div 4 : j \in DOMAIN lines})

\* The number of steps main() has left at most: the calls still to make
Remaining ==
    CASE pc = "start" -> n + 3
      [] pc = "loop" -> n - i + 2
      [] pc = "cleanup" -> 1
      [] OTHER -> 0

\* C20: on every tree reachable by inserts, insert_avl, destroy_avl and
\* print_avl_sideways terminate (each call is one step that completes, and
\* every step of main() lowers the number of steps left, so no run goes on
\* for ever) and none nests its calls deeper than the height of the tree at
\* call time plus one.
C20_RecursionDepthBounded ==
    [][/\ Remaining' < Remaining
       /\ Remaining' >= 0
       /\ InsertStep => Len(frames') <= get_avl_height(heap, root) + 1
       /\ PrintStep => PrintDepth(out') <= get_avl_height(heap, root) + 1
       /\ DestroyStep =>
             destroy_avl(heap, root).depth <= get_avl_height(heap, root) + 1
      ]_vars

\* A tree of height 3 has been built, printed and destroyed
C20_Witness ==
    /\ pc = "done"
    /\ rc = 0
    /\ Len(freed) >= 4
    /\ PrintDepth(out) >= 4

\* ---------------------------------------------------------------- C18
StrictlyOrdered(h, rt) ==
    \A nd \in Nodes(h, rt) :
        /\ \A k \in KeysUnder(h, h[nd].left) : k < h[nd].data
        /\ \A k \in KeysUnder(h, h[nd].right) : k >= h[nd].data

WeaklyOrdered(h, rt) ==
    \A nd \in Nodes(h, rt) :
        /\ \A k \in KeysUnder(h, h[nd].left) : k <= h[nd].data
        /\ \A k \in KeysUnder(h, h[nd].right) : k >= h[nd].data

RotateStep == pc = "rotate" /\ pc' \in {"rotated_right", "rotated_left"}

\* C18 (as stated): for every subtree with left keys < node key and right
\* keys >= node key and the required child present, the subtree returned by
\* right_rotate_avl, and by left_rotate_avl, satisfies that ordering at every
\* node and has the same in-order key sequence.
C18_RotationKeepsStrictOrdering ==
    [][(RotateStep /\ StrictlyOrdered(heap, root)) =>
          /\ StrictlyOrdered(heap', temp')
          /\ InOrder(heap', temp') = InOrder(heap, root)]_vars

\* C18 (amended): for such a subtree, the subtree returned by
\* right_rotate_avl satisfies that ordering at every node, the one returned by
\* left_rotate_avl satisfies it with left keys <= node key, and both have the
\* same in-order key sequence as before.
C18_RotationKeepsOrdering ==
    [][(RotateStep /\ StrictlyOrdered(heap, root)) =>
          /\ pc' = "rotated_right" => StrictlyOrdered(heap', temp')
          /\ pc' = "rotated_left" => WeaklyOrdered(heap', temp')
          /\ InOrder(heap', temp') = InOrder(heap, root)]_vars

\* left_rotate_avl has put a node under a new root with an equal key, in a
\* subtree of four nodes
C18_Witness ==
    /\ pc = "rotated_left"
    /\ heap[temp].data = heap[root].data
    /\ WeaklyOrdered(heap, temp)
    /\ ~StrictlyOrdered(heap, temp)
    /\ Cardinality(Nodes(heap, temp)) >= 4

\* ---------------------------------------------------------------- C19
StoredHeight(h, nd) ==
    1 + MAXIMUM(get_avl_height(h, h[nd].left), get_avl_height(h, h[nd].right))

\* C19: right_rotate_avl(y) with x = y.left returns x and changes only
\* x.right (now y), y.left (now x's old right child), y.height and x.height,
\* y.height recomputed first, each as 1 + max of the children's stored
\* heights; left_rotate_avl is the mirror image.  No key, no other height and
\* no other link is modified.
C19_RotationFrame ==
    [][RotateStep =>
          LET right == pc' = "rotated_right"
              down == root
              up == IF right THEN heap[root].left ELSE heap[root].right
              t2 == IF right THEN heap[up].right ELSE heap[up].left
          IN /\ temp' = up
             /\ DOMAIN heap' = DOMAIN heap
             /\ \A m \in DOMAIN heap \ {up, down} : heap'[m] = heap[m]
             /\ heap'[up].data = heap[up].data
             /\ heap'[down].data = heap[down].data
             /\ IF right
                THEN /\ heap'[up].left = heap[up].left
                     /\ heap'[up].right = down
                     /\ heap'[down].left = t2
                     /\ heap'[down].right = heap[down].right
                ELSE /\ heap'[up].right = heap[up].right
                     /\ heap'[up].left = down
                     /\ heap'[down].right = t2
                     /\ heap'[down].left = heap[down].left
             /\ heap'[down].height =
                   1 + MAXIMUM(get_avl_height(heap, t2),
                               get_avl_height(heap,
                                   IF right THEN heap[down].right
                                            ELSE heap[down].left))
             /\ heap'[up].height =
                   1 + MAXIMUM(heap'[down].height,
                               get_avl_height(heap,
                                   IF right THEN heap[up].left
                                            ELSE heap[up].right))
             /\ heap'[down].height = StoredHeight(heap', down)
             /\ heap'[up].height = StoredHeight(heap', up)]_vars

\* A rotation below the root of the tree has moved a subtree t2 and changed
\* the height of the node it demoted
C19_Witness ==
    /\ pc \in {"rotated_right", "rotated_left"}
    /\ \E m \in DOMAIN heap : root \in {heap[m].left, heap[m].right} /\ m # temp
    /\ \/ pc = "rotated_right" /\ heap[root].left # NULL
       \/ pc = "rotated_left" /\ heap[root].right # NULL
    /\ heap[temp].height = heap[root].height + 1

\* ---------------------------------------------------------------- C12
\* A C array in non-decreasing order
SortedArray(arr) ==
    \A x, y \in DOMAIN arr : x < y => arr[x] <= arr[y]

\* The C array arr holds the elements of the sequence seq, each as often
SamePermutation(arr, seq) ==
    /\ Cardinality(DOMAIN arr) = Len(seq)
    /\ \A k \in Range(seq) \cup {arr[x] : x \in DOMAIN arr} :
          Cardinality({x \in DOMAIN arr : arr[x] = k}) = Count(seq, k)

\* C12: after merge_sort(arr_count, arr) returns (its buffer allocated), arr
\* is in non-decreasing order and is a permutation of its original contents.
C12_MergeSortSorts ==
    pc = "print" =>
        /\ DOMAIN a = 0..(n - 1)
        /\ SortedArray(a)
        /\ SamePermutation(a, argv)

\* An unsorted array of four or more elements with a repeated value has been
\* sorted
C12_Witness ==
    /\ pc = "print"
    /\ n >= 4
    /\ \E x \in 1..(n - 1) : argv[x] > argv[x + 1]
    /\ \E x, y \in 1..n : x # y /\ argv[x] = argv[y]

\* ---------------------------------------------------------------- C13
TreeSortStep == pc = "sort" /\ pc' = "print"

\* C13: when no allocation fails, the recursive tree_sort(arr_count, arr)
\* returns CDSA_TREE_SORT_OK with arr in non-decreasing order and a
\* permutation of its original contents, and every tree node and the tree
\* handle it allocated have been freed.
C13_TreeSortSortsAndFrees ==
    [][(TreeSortStep /\ NULL \notin Range(frames')) =>
          /\ temp' = CDSA_TREE_SORT_OK
          /\ DOMAIN a' = 0..(n - 1)
          /\ SortedArray(a')
          /\ SamePermutation(a', argv)
          /\ Range(freed') = Range(frames')
          /\ Len(freed') = Len(frames')
          /\ (n >= 2 => Len(frames') = n + 1)
          /\ heap' = heap]_vars

\* An unsorted array of four or more elements with a repeated value has been
\* sorted with every allocation granted
C13_Witness ==
    /\ pc = "print"
    /\ n >= 4
    /\ \E x \in 1..(n - 1) : argv[x] > argv[x + 1]
    /\ \E x, y \in 1..n : x # y /\ argv[x] = argv[y]
    /\ Len(frames) = n + 1
    /\ NULL \notin Range(frames)

\* ---------------------------------------------------------------- C14
\* The keys stored in the tree of handle t, in left-self-right order
Stored(h, t) == InOrder(h, h[t].root)

\* Left subtree keys <= key, right subtree keys > key, at every node
PushOrdered(h, t) ==
    \A nd \in Nodes(h, h[t].root) :
        /\ \A k \in KeysUnder(h, h[nd].left) : k <= h[nd].data
        /\ \A k \in KeysUnder(h, h[nd].right) : k > h[nd].data

PopStep == pc' = "popped"

\* C14: pop_bst(tree, d) returns CDSA_SIMPLE_BST_NOT_FOUND and leaves the tree
\* unchanged when d is not stored; otherwise it returns CDSA_SIMPLE_BST_OK,
\* removes exactly one occurrence of d (all other keys kept), frees exactly
\* one node, and leaves left subtree keys <= key < right subtree keys at
\* every node.
C14_PopRemovesOne ==
    [][PopStep =>
         IF Count(Stored(heap, tree), temp') = 0
         THEN /\ rc' = CDSA_SIMPLE_BST_NOT_FOUND
              /\ heap' = heap
              /\ freed' = <<>>
         ELSE /\ rc' = CDSA_SIMPLE_BST_OK
              /\ \A k \in Keys :
                   Count(Stored(heap', tree), k) =
                     Count(Stored(heap, tree), k) - (IF k = temp' THEN 1 ELSE 0)
              /\ Len(freed') = 1
              /\ freed'[1] \in Nodes(heap, heap[tree].root)
              /\ DOMAIN heap' = DOMAIN heap \ {freed'[1]}
              /\ Nodes(heap', heap'[tree].root) = DOMAIN heap' \ {tree}
              /\ PushOrdered(heap', tree)]_vars

\* A pop has just removed one key from a tree of MaxBstNodes nodes or more,
\* leaving a repeated key and a node with two children that does not hold
\* the popped value
C14_Witness ==
    /\ pc = "popped"
    /\ rc = CDSA_SIMPLE_BST_OK
    /\ Len(freed) = 1
    /\ Cardinality(DOMAIN heap) >= 4
    /\ \E nd \in Nodes(heap, heap[tree].root) :
         /\ heap[nd].left # NULL
         /\ heap[nd].right # NULL
         /\ heap[nd].data # temp
    /\ \E x, y \in DOMAIN heap \ {tree} : x # y /\ heap[x].data = heap[y].data

\* ---------------------------------------------------------------- C21
PairwiseDistinct(seq) == \A x, y \in DOMAIN seq : x # y => seq[x] # seq[y]

\* The recursion levels of the last insert_avl call that rotated
Rebalanced == {j \in DOMAIN frames : frames[j].rot # "none"}

\* C21: on pairwise distinct keys, after each insert_avl call every node has
\* |balance factor| <= 1, and at most one node of the insertion path was
\* rebalanced (by one single or one double rotation) by that call.
C21_DistinctKeysBalanced ==
    PairwiseDistinct(argv) =>
        /\ pc # "crashed"
        /\ TreeObservable =>
             /\ \A nd \in Nodes(heap, root) :
                  /\ Abs(get_avl_balance(heap, nd)) <= 1
                  /\ Abs(TrueHeight(heap, heap[nd].left)
                         - TrueHeight(heap, heap[nd].right)) <= 1
             /\ Cardinality(Rebalanced) <= 1

\* Five or more distinct keys are in, and the last insert made a double
\* rotation below the root
C21_Witness ==
    /\ pc = "loop"
    /\ i >= 5
    /\ PairwiseDistinct(argv)
    /\ \E j \in DOMAIN frames :
         /\ frames[j].rot \in {"LR", "RL"}
         /\ frames[j].ret # root
    /\ \A nd \in Nodes(heap, root) : Abs(get_avl_balance(heap, nd)) <= 1

\* ---------------------------------------------------------------- C22
NonDecreasing(seq) == \A j \in 1..(Len(seq) - 1) : seq[j] <= seq[j + 1]

NonIncreasing(seq) == \A j \in 1..(Len(seq) - 1) : seq[j] >= seq[j + 1]

Reversed(seq) == [j \in 1..Len(seq) |-> seq[Len(seq) + 1 - j]]

PrintedKeys == [j \in DOMAIN out |-> out[j].data]

\* C22: after each insert_avl call that returns a tree the left-self-right
\* key sequence of that tree is non-decreasing, and the right-self-left
\* output of print_avl_sideways is that sequence backwards, so it lists the
\* keys in non-increasing order.
C22_InOrderSorted ==
    /\ TreeObservable => NonDecreasing(InOrder(heap, root))
    /\ Printed =>
         /\ NonIncreasing(PrintedKeys)
         /\ Len(out) = n
         /\ pc = "cleanup" => PrintedKeys = Reversed(InOrder(heap, root))

\* A command line of four or more keys, neither sorted nor free of
\* repetitions, has been inserted with a rotation in the last call, and
\* printed
C22_Witness ==
    /\ pc = "cleanup"
    /\ rc = 0
    /\ n >= 4
    /\ Len(out) = n
    /\ ~NonDecreasing(argv)
    /\ ~NonIncreasing(argv)
    /\ ~PairwiseDistinct(argv)
    /\ Rebalanced # {}

\* ---------------------------------------------------------------- C23
\* The nodes under node in the order tree_sort_recursive writes them
RECURSIVE RecursiveWalk(_, _)
RecursiveWalk(h, node) ==
    IF node = NULL THEN <<>>
    ELSE RecursiveWalk(h, h[node].left) \o <<node>>
           \o RecursiveWalk(h, h[node].right)

\* What the recursive tree_sort of tree_sort.c does with the array main()
\* holds when every allocation is granted
Recursive == tree_sort(heap, n, a, 0)

\* The tree the recursive tree_sort builds from that array before its walk
RecursiveTree ==
    LET t == new_bst(heap, TRUE)
        pushed == tree_sort_push_loop(t.heap, t.ret, n, a, 0, 0, <<t.ret>>)
    IN [heap |-> pushed.heap, root |-> pushed.heap[t.ret].root,
        allocs |-> pushed.allocs]

\* Which push created the node: its place among the allocations of the
\* call, less the blocks allocated before the first node
PushNumber(allocs, node, before) ==
    (CHOOSE j \in DOMAIN allocs : allocs[j] = node) - before

NoRecursionSortStep == pc = "sort" /\ pc' = "print"

\* C23: when no allocation fails, the stack-based tree_sort of
\* tree_sort_no_recursion.c returns the same code as the recursive tree_sort
\* of tree_sort.c and leaves the array with the same contents, and its
\* explicit-stack walk visits the nodes in the order of the recursive walk.
C23_SameAsRecursive ==
    [][(NoRecursionSortStep /\ NULL \notin Range(frames')) =>
          /\ temp' = Recursive.ret
          /\ a' = Recursive.arr
          /\ n >= 2 =>
               /\ Len(frames') = Allocations(n)
               /\ LET rt == RecursiveTree
                      order == RecursiveWalk(rt.heap, rt.root)
                  IN /\ Len(visited') = Len(order)
                     /\ \A j \in DOMAIN order :
                          PushNumber(frames', visited'[j], 2) =
                            PushNumber(rt.allocs, order[j], 1)]_vars

\* An unsorted array of four or more elements with a repeated value has been
\* sorted by the stack-based tree_sort with every allocation granted
C23_Witness ==
    /\ pc = "print"
    /\ n >= 4
    /\ \E x \in 1..(n - 1) : argv[x] > argv[x + 1]
    /\ \E x, y \in 1..n : x # y /\ argv[x] = argv[y]
    /\ Len(visited) = n
    /\ Len(frames) = Allocations(n)
    /\ NULL \notin Range(frames)

====
